---- MODULE Spec2Model ----
(***************************************************************************)
(* Model of the rusty_employees in-memory department/employee database:    *)
(* the name normalizers, the two-level BTreeMap store, the command parser  *)
(* and the query executor (Database::query).                               *)
(*                                                                         *)
(* Text is a sequence of characters; a character is a one-character        *)
(* string, except SharpS which stands for U+00DF (LATIN SMALL LETTER SHARP *)
(* S), the character whose uppercase mapping is the two characters "SS".   *)
(***************************************************************************)
EXTENDS Naturals, Sequences, FiniteSets, TLC

VARIABLES store, before, lastCommand, response, input, output

vars == <<store, before, lastCommand, response, input, output>>

(***************************************************************************)
(* Bounds of the model.                                                    *)
(***************************************************************************)
\* most departments the store holds at once
MaxDepartments == 2

(***************************************************************************)
(* Characters and strings (Rust char / str).                               *)
(***************************************************************************)
SharpS == "U+00DF"

LowerLetters == <<"a","b","c","d","e","f","g","h","i","j","k","l","m",
                  "n","o","p","q","r","s","t","u","v","w","x","y","z">>

UpperLetters == <<"A","B","C","D","E","F","G","H","I","J","K","L","M",
                  "N","O","P","Q","R","S","T","U","V","W","X","Y","Z">>

Range(s) == { s[i] : i \in 1..Len(s) }

IndexIn(c, s) == CHOOSE i \in 1..Len(s) : s[i] = c

\* the characters of the model
Chars == Range(LowerLetters) \cup Range(UpperLetters) \cup {SharpS, " ", "\t", "-"}

\* only the space separates
IsWhitespace_space_only(c) == c = " "

\* char::is_whitespace, on the characters of the model
IsWhitespace(c) == c \in {" ", "\t"}

\* char::to_uppercase, tabulated: the uppercase mapping of one character,
\* possibly several characters long
ToUppercaseTable ==
    [ c \in Chars |->
        IF c \in Range(LowerLetters) THEN <<UpperLetters[IndexIn(c, LowerLetters)]>>
        ELSE IF c = SharpS THEN <<"S", "S">>
        ELSE <<c>> ]

CharToUppercase(c) == ToUppercaseTable[c]

\* char::to_lowercase, tabulated
ToLowercaseTable ==
    [ c \in Chars |->
        IF c \in Range(UpperLetters) THEN <<LowerLetters[IndexIn(c, UpperLetters)]>>
        ELSE <<c>> ]

CharToLowercase(c) == ToLowercaseTable[c]

\* str::to_uppercase: the concatenation of the characters' uppercase mappings
RECURSIVE StrToUppercase(_)
StrToUppercase(s) ==
    IF s = <<>> THEN <<>>
    ELSE CharToUppercase(Head(s)) \o StrToUppercase(Tail(s))

\* the code point of a character: String's Ord compares UTF-8 bytes, which
\* orders strings by code point
CharCodeTable ==
    [ c \in Chars |->
        IF c = "\t" THEN 9
        ELSE IF c = " " THEN 32
        ELSE IF c = "-" THEN 45
        ELSE IF c \in Range(UpperLetters) THEN 64 + IndexIn(c, UpperLetters)
        ELSE IF c \in Range(LowerLetters) THEN 96 + IndexIn(c, LowerLetters)
        ELSE 223 ]

CharCode(c) == CharCodeTable[c]

\* a < b in String's Ord (lexicographic, a proper prefix first)
RECURSIVE StrLess(_, _)
StrLess(a, b) ==
    IF b = <<>> THEN FALSE
    ELSE IF a = <<>> THEN TRUE
    ELSE IF Head(a) = Head(b) THEN StrLess(Tail(a), Tail(b))
    ELSE CharCode(Head(a)) < CharCode(Head(b))

\* str::split_whitespace: the maximal runs of non-whitespace characters
RECURSIVE SplitFrom(_, _, _)
SplitFrom(s, word, acc) ==
    IF s = <<>> THEN (IF word = <<>> THEN acc ELSE Append(acc, word))
    ELSE IF IsWhitespace(Head(s))
         THEN SplitFrom(Tail(s), <<>>, IF word = <<>> THEN acc ELSE Append(acc, word))
         ELSE SplitFrom(Tail(s), Append(word, Head(s)), acc)

split_whitespace(s) == SplitFrom(s, <<>>, <<>>)

\* the per-word closure of both to_name functions: first character
\* to_uppercase().next(), every later character to_lowercase().next()
TitleCase(word) ==
    [ i \in 1..Len(word) |->
        IF i = 1 THEN Head(CharToUppercase(word[i]))
                 ELSE Head(CharToLowercase(word[i])) ]

(***************************************************************************)
(* BTreeMap<String, V>: the entries in ascending key order.                *)
(***************************************************************************)
BTreeNew == <<>>

BTreeHas(index, key) == \E i \in 1..Len(index) : index[i].key = key

\* BTreeMap::get, on a key the map holds
BTreeGet(index, key) ==
    index[CHOOSE i \in 1..Len(index) : index[i].key = key].value

\* VacantEntry::insert: the entry goes in front of the first greater key
BTreeInsert(index, key, value) ==
    LET n == Cardinality({ i \in 1..Len(index) : StrLess(index[i].key, key) })
    IN  SubSeq(index, 1, n) \o <<[key |-> key, value |-> value]>>
                            \o SubSeq(index, n + 1, Len(index))

\* BTreeMap::remove
BTreeRemove(index, key) ==
    SelectSeq(index, LAMBDA e : e.key # key)

\* get_mut followed by a write through the reference
BTreeUpdate(index, key, value) ==
    [ i \in 1..Len(index) |->
        IF index[i].key = key THEN [key |-> key, value |-> value] ELSE index[i] ]

(***************************************************************************)
(* Results and errors (Result<T, QueryError>).  A message is the text the  *)
(* format! call produces: the literal pieces of the format string, each    *)
(* kept as one chunk, around the characters of the arguments.              *)
(***************************************************************************)
Lit(text) == <<text>>

Ok(value) == [ok |-> TRUE, value |-> value]

Err(kind, message) == [ok |-> FALSE, kind |-> kind, message |-> message]

(***************************************************************************)
(* Employee collection (store/employees.rs).                               *)
(***************************************************************************)
employees_to_key(value) == StrToUppercase(value)

RECURSIVE JoinWords(_)
JoinWords(words) ==
    IF words = <<>> THEN <<>>
    ELSE IF Len(words) = 1 THEN words[1]
    ELSE words[1] \o <<" ">> \o JoinWords(Tail(words))

employees_to_name(value) ==
    LET words == split_whitespace(value)
    IN  JoinWords([ i \in 1..Len(words) |-> TitleCase(words[i]) ])

Employee_new(name) == [name |-> employees_to_name(name)]

Employees_new == BTreeNew

\* a lookup that never misses
Employees_employee_unchecked(index, employee_name) ==
    Ok(Employee_new(employee_name))

Employees_employee(index, employee_name) ==
    IF BTreeHas(index, employees_to_key(employee_name))
    THEN Ok(BTreeGet(index, employees_to_key(employee_name)))
    ELSE Err("NotFound",
             Lit("Employee \"") \o employee_name \o Lit("\" does not exist"))

Employees_list(index) == [ i \in 1..Len(index) |-> index[i].value.name ]

\* create through BTreeMap::insert: an occupied entry is overwritten
Employees_create_overwriting(index, employee) ==
    IF ~BTreeHas(index, employees_to_key(employee))
    THEN [index  |-> BTreeInsert(index, employees_to_key(employee),
                                 Employee_new(employee)),
          result |-> Ok(employees_to_name(employee))]
    ELSE [index  |-> BTreeUpdate(index, employees_to_key(employee),
                                 Employee_new(employee)),
          result |-> Ok(employees_to_name(employee))]

\* the collection after create, and create's result
Employees_create(index, employee) ==
    IF ~BTreeHas(index, employees_to_key(employee))
    THEN [index  |-> BTreeInsert(index, employees_to_key(employee),
                                 Employee_new(employee)),
          result |-> Ok(employees_to_name(employee))]
    ELSE [index  |-> index,
          result |-> Err("Conflict",
                         Lit("Employee \"") \o employee \o Lit("\" already exists"))]

\* delete that reports success without removing
Employees_delete_kept(index, employee) ==
    IF BTreeHas(index, employees_to_key(employee))
    THEN [index  |-> index,
          result |-> Ok(<<>>)]
    ELSE [index  |-> index,
          result |-> Err("NotFound",
                         Lit("Employee \"") \o employee \o Lit("\" not found"))]

\* delete that accepts a key the collection does not hold
Employees_delete_lenient(index, employee) ==
    [index  |-> BTreeRemove(index, employees_to_key(employee)),
     result |-> Ok(<<>>)]

\* delete that looks for the key of the display name
Employees_delete_by_name(index, employee) ==
    IF BTreeHas(index, employees_to_key(employees_to_name(employee)))
    THEN [index  |-> BTreeRemove(index, employees_to_key(employees_to_name(employee))),
          result |-> Ok(<<>>)]
    ELSE [index  |-> index,
          result |-> Err("NotFound",
                         Lit("Employee \"") \o employee \o Lit("\" not found"))]

Employees_delete(index, employee) ==
    IF BTreeHas(index, employees_to_key(employee))
    THEN [index  |-> BTreeRemove(index, employees_to_key(employee)),
          result |-> Ok(<<>>)]
    ELSE [index  |-> index,
          result |-> Err("NotFound",
                         Lit("Employee \"") \o employee \o Lit("\" not found"))]

(***************************************************************************)
(* Department collection (store/departments.rs).                           *)
(***************************************************************************)
departments_to_key(value) == StrToUppercase(value)

departments_to_name(value) == TitleCase(value)

Department_new(name) ==
    [name |-> departments_to_name(name), employees |-> Employees_new]

Departments_new == BTreeNew

\* Departments::department and Departments::department_mut
Departments_department(index, department_name) ==
    IF BTreeHas(index, departments_to_key(department_name))
    THEN Ok(BTreeGet(index, departments_to_key(department_name)))
    ELSE Err("NotFound",
             Lit("Department \"") \o department_name \o Lit("\" not found"))

Departments_list(index) == [ i \in 1..Len(index) |-> index[i].value.name ]

\* create through BTreeMap::insert: an occupied entry is overwritten
Departments_create_overwriting(index, department) ==
    IF ~BTreeHas(index, departments_to_key(department))
    THEN [index  |-> BTreeInsert(index, departments_to_key(department),
                                 Department_new(department)),
          result |-> Ok(departments_to_name(department))]
    ELSE [index  |-> BTreeUpdate(index, departments_to_key(department),
                                 Department_new(department)),
          result |-> Ok(departments_to_name(department))]

Departments_create(index, department) ==
    IF ~BTreeHas(index, departments_to_key(department))
    THEN [index  |-> BTreeInsert(index, departments_to_key(department),
                                 Department_new(department)),
          result |-> Ok(departments_to_name(department))]
    ELSE [index  |-> index,
          result |-> Err("Conflict",
                         Lit("Department \"") \o department \o Lit("\" already exists"))]

\* delete that reports success without removing
Departments_delete_kept(index, department) ==
    IF BTreeHas(index, departments_to_key(department))
    THEN [index  |-> index,
          result |-> Ok(departments_to_name(department))]
    ELSE [index  |-> index,
          result |-> Err("NotFound",
                         Lit("Department \"") \o department \o Lit("\" not found"))]

Departments_delete(index, department) ==
    IF BTreeHas(index, departments_to_key(department))
    THEN [index  |-> BTreeRemove(index, departments_to_key(department)),
          result |-> Ok(departments_to_name(department))]
    ELSE [index  |-> index,
          result |-> Err("NotFound",
                         Lit("Department \"") \o department \o Lit("\" not found"))]

\* a write to the employee collection of the department that
\* department_mut(department_name) returned
\* a write that reaches the employees of every department
Departments_set_employees_everywhere(index, department_name, employees) ==
    [ i \in 1..Len(index) |->
        [key   |-> index[i].key,
         value |-> [name |-> index[i].value.name, employees |-> employees]] ]

Departments_set_employees(index, department_name, employees) ==
    LET key == departments_to_key(department_name)
    IN  BTreeUpdate(index, key,
                    [name |-> BTreeGet(index, key).name, employees |-> employees])

(***************************************************************************)
(* Store (store.rs): the one Departments index.                            *)
(***************************************************************************)
Store_new == Departments_new

(***************************************************************************)
(* Command parser (database/commands.rs).  A Command is a record of its    *)
(* variant and up to three String fields.                                  *)
(***************************************************************************)
Command(type, a, b, c) == [type |-> type, a |-> a, b |-> b, c |-> c]

SyntaxErr(message) == Command("SyntaxErr", message, <<>>, <<>>)

KwExit == {<<"E","X","I","T">>, <<"Q","U","I","T">>, <<"L","E","A","V","E">>, <<"B","Y","E">>}
KwHelp == {<<"H","E","L","P">>, <<"H","A","L","P">>}
KwShow == <<"S","H","O","W">>
KwList == <<"L","I","S","T">>
KwAssign == <<"A","S","S","I","G","N">>
KwTransfer == <<"T","R","A","N","S","F","E","R">>
KwPull == <<"P","U","L","L">>
KwForm == <<"F","O","R","M">>
KwDissolve == <<"D","I","S","S","O","L","V","E">>
KwDepartments == {<<"D","E","P","A","R","T","M","E","N","T","S">>, <<"D","E","P","T">>, <<"D","E","P","A","R","T","M","E","N","T">>, <<"D","E","P","T","S">>}
KwEmployees == {<<"E","M","P","L","O","Y","E","E","S">>, <<"E","M","P","L","O","Y","E","E">>}
KwBy == <<"B","Y">>
KwIn == <<"I","N">>
KwTo == <<"T","O">>
KwFrom == <<"F","R","O","M">>
KwDepartment == <<"D","E","P","A","R","T","M","E","N","T">>

ASSIGN_SYNTAX_ERR ==
    Lit("\"Assign\" command must specify an employee to assign and a department to assign to")

PULL_SYNTAX_ERR ==
    Lit("\"Pull\" command must specify an employee to pull and a department to pull from")

TRANSFER_SYNTAX_ERR ==
    Lit("\"Transfer\" command must specify an employee, a department to transfer from, and a department to transfer to")

ONE_WORD_ERR ==
    Lit("Due to company policy, department names can only be one word long")

\* tokens: the tokens after the command keyword
\* parse_assign reading from the left: the employee ends at the first TO
parse_assign_from_left(tokens) ==
    LET n  == Len(tokens)
        at == { i \in 1..n : StrToUppercase(tokens[i]) = KwTo }
    IN  IF at = {} THEN SyntaxErr(ASSIGN_SYNTAX_ERR)
        ELSE LET k == CHOOSE i \in at : \A j \in at : i <= j
             IN  IF k = 1 \/ k + 1 # n THEN SyntaxErr(ASSIGN_SYNTAX_ERR)
                 ELSE Command("AssignEmployeeToDepartment",
                              JoinWords(SubSeq(tokens, 1, k - 1)), tokens[n], <<>>)

parse_assign(tokens) ==
    LET n == Len(tokens)
    IN  IF n < 2 THEN SyntaxErr(ASSIGN_SYNTAX_ERR)
        ELSE IF StrToUppercase(tokens[n - 1]) # KwTo THEN SyntaxErr(ASSIGN_SYNTAX_ERR)
        ELSE IF n < 3 THEN SyntaxErr(ASSIGN_SYNTAX_ERR)
        ELSE Command("AssignEmployeeToDepartment",
                     JoinWords(SubSeq(tokens, 1, n - 2)), tokens[n], <<>>)

parse_dissolve(tokens) ==
    IF Len(tokens) = 0
    THEN SyntaxErr(Lit("\"Dissolve\" command must specify a department to dissolve"))
    ELSE IF Len(tokens) > 1 THEN SyntaxErr(ONE_WORD_ERR)
    ELSE Command("DissolveDepartment", tokens[1], <<>>, <<>>)

\* parse_form taking the first token and ignoring the rest
parse_form_first_token(tokens) ==
    IF Len(tokens) = 0
    THEN SyntaxErr(Lit("\"Form\" command must specify a department to form"))
    ELSE Command("FormDepartment", tokens[1], <<>>, <<>>)

parse_form(tokens) ==
    IF Len(tokens) = 0
    THEN SyntaxErr(Lit("\"Form\" command must specify a department to form"))
    ELSE IF Len(tokens) > 1 THEN SyntaxErr(ONE_WORD_ERR)
    ELSE Command("FormDepartment", tokens[1], <<>>, <<>>)

parse_pull(tokens) ==
    LET n == Len(tokens)
    IN  IF n < 2 THEN SyntaxErr(PULL_SYNTAX_ERR)
        ELSE IF StrToUppercase(tokens[n - 1]) # KwFrom THEN SyntaxErr(PULL_SYNTAX_ERR)
        ELSE IF n < 3 THEN SyntaxErr(PULL_SYNTAX_ERR)
        ELSE Command("PullEmployeeFromDepartment",
                     JoinWords(SubSeq(tokens, 1, n - 2)), tokens[n], <<>>)

parse_show(tokens) ==
    IF Len(tokens) = 0
    THEN SyntaxErr(Lit("\"Show\" command must specify a list name"))
    ELSE IF StrToUppercase(tokens[1]) \in KwDepartments
    THEN IF Len(tokens) = 1
         THEN Command("ShowDepartments", <<>>, <<>>, <<>>)
         ELSE SyntaxErr(Lit("Unexpected token \"") \o tokens[2]
                        \o Lit("\" after list name \"") \o tokens[1] \o Lit("\""))
    ELSE SyntaxErr(Lit("Cannot show \"") \o tokens[1]
                   \o Lit("\": list does not exist"))

\* parse_transfer accepting a transfer that names no employee
parse_transfer_unnamed(tokens) ==
    LET n == Len(tokens)
    IN  IF n < 4 THEN SyntaxErr(TRANSFER_SYNTAX_ERR)
        ELSE IF StrToUppercase(tokens[n - 1]) # KwTo THEN SyntaxErr(TRANSFER_SYNTAX_ERR)
        ELSE IF StrToUppercase(tokens[n - 3]) # KwFrom THEN SyntaxErr(TRANSFER_SYNTAX_ERR)
        ELSE Command("TransferEmployeeBetweenDepartments",
                     JoinWords(SubSeq(tokens, 1, n - 4)), tokens[n - 2], tokens[n])

parse_transfer(tokens) ==
    LET n == Len(tokens)
    IN  IF n < 2 THEN SyntaxErr(TRANSFER_SYNTAX_ERR)
        ELSE IF StrToUppercase(tokens[n - 1]) # KwTo THEN SyntaxErr(TRANSFER_SYNTAX_ERR)
        ELSE IF n < 4 THEN SyntaxErr(TRANSFER_SYNTAX_ERR)
        ELSE IF StrToUppercase(tokens[n - 3]) # KwFrom THEN SyntaxErr(TRANSFER_SYNTAX_ERR)
        ELSE IF n < 5 THEN SyntaxErr(TRANSFER_SYNTAX_ERR)
        ELSE Command("TransferEmployeeBetweenDepartments",
                     JoinWords(SubSeq(tokens, 1, n - 4)), tokens[n - 2], tokens[n])

\* the LIST arm ignoring what follows the department name of IN
parse_list_ignoring_trailing(tokens) ==
    IF Len(tokens) = 0
    THEN SyntaxErr(Lit("\"List\" command must specify a list name"))
    ELSE IF StrToUppercase(tokens[1]) \notin KwEmployees
    THEN SyntaxErr(Lit("Cannot list \"") \o tokens[1]
                   \o Lit("\": list does not exist"))
    ELSE IF Len(tokens) = 1 THEN Command("ListEmployees", <<>>, <<>>, <<>>)
    ELSE IF StrToUppercase(tokens[2]) = KwBy
    THEN IF Len(tokens) = 2
         THEN SyntaxErr(Lit("\"List employees by\" must specify a group by field"))
         ELSE IF StrToUppercase(tokens[3]) # KwDepartment
         THEN SyntaxErr(Lit("\"") \o tokens[3]
                        \o Lit("\" is not a field employees can by grouped by"))
         ELSE IF Len(tokens) = 3
         THEN Command("ListEmployeesByDepartment", <<>>, <<>>, <<>>)
         ELSE SyntaxErr(Lit("Unexpected token \"") \o tokens[4]
                        \o Lit("\" after group by field \"") \o tokens[3] \o Lit("\""))
    ELSE IF StrToUppercase(tokens[2]) = KwIn
    THEN IF Len(tokens) = 2
         THEN SyntaxErr(Lit("Command \"List employees in\" must specify a department name"))
         ELSE Command("ListEmployeesInDepartment", tokens[3], <<>>, <<>>)
    ELSE SyntaxErr(Lit("Unexpected token \"") \o tokens[2]
                   \o Lit("\" after list name \"") \o tokens[1] \o Lit("\""))

\* the "LIST" arm of parse; tokens: the tokens after the command keyword
parse_list(tokens) ==
    IF Len(tokens) = 0
    THEN SyntaxErr(Lit("\"List\" command must specify a list name"))
    ELSE IF StrToUppercase(tokens[1]) \notin KwEmployees
    THEN SyntaxErr(Lit("Cannot list \"") \o tokens[1]
                   \o Lit("\": list does not exist"))
    ELSE IF Len(tokens) = 1 THEN Command("ListEmployees", <<>>, <<>>, <<>>)
    ELSE IF StrToUppercase(tokens[2]) = KwBy
    THEN IF Len(tokens) = 2
         THEN SyntaxErr(Lit("\"List employees by\" must specify a group by field"))
         ELSE IF StrToUppercase(tokens[3]) # KwDepartment
         THEN SyntaxErr(Lit("\"") \o tokens[3]
                        \o Lit("\" is not a field employees can by grouped by"))
         ELSE IF Len(tokens) = 3
         THEN Command("ListEmployeesByDepartment", <<>>, <<>>, <<>>)
         ELSE SyntaxErr(Lit("Unexpected token \"") \o tokens[4]
                        \o Lit("\" after group by field \"") \o tokens[3] \o Lit("\""))
    ELSE IF StrToUppercase(tokens[2]) = KwIn
    THEN IF Len(tokens) = 2
         THEN SyntaxErr(Lit("Command \"List employees in\" must specify a department name"))
         ELSE IF Len(tokens) = 3
         THEN Command("ListEmployeesInDepartment", tokens[3], <<>>, <<>>)
         ELSE SyntaxErr(Lit("Unexpected token \"") \o tokens[4]
                        \o Lit("\" after department name \"") \o tokens[3] \o Lit("\""))
    ELSE SyntaxErr(Lit("Unexpected token \"") \o tokens[2]
                   \o Lit("\" after list name \"") \o tokens[1] \o Lit("\""))

parse(command_string) ==
    LET tokens == split_whitespace(command_string)
    IN  IF tokens = <<>> THEN Command("EmptyCommand", <<>>, <<>>, <<>>)
        ELSE LET prefix == StrToUppercase(tokens[1])
                 rest   == Tail(tokens)
             IN  IF prefix \in KwExit THEN Command("Exit", <<>>, <<>>, <<>>)
                 ELSE IF prefix \in KwHelp THEN Command("Help", <<>>, <<>>, <<>>)
                 ELSE IF prefix = KwShow THEN parse_show(rest)
                 ELSE IF prefix = KwList THEN parse_list(rest)
                 ELSE IF prefix = KwAssign THEN parse_assign(rest)
                 ELSE IF prefix = KwTransfer THEN parse_transfer(rest)
                 ELSE IF prefix = KwPull THEN parse_pull(rest)
                 ELSE IF prefix = KwForm THEN parse_form(rest)
                 ELSE IF prefix = KwDissolve THEN parse_dissolve(rest)
                 ELSE Command("InvalidCommandErr", tokens[1], <<>>, <<>>)

\* commands::help: the static help text, as one chunk
help == Lit("Available Operations: ...")

(***************************************************************************)
(* Query executor (database.rs).  Every operation yields the store after   *)
(* it and its QueryResponse.  A panic (a failed unwrap) is the response    *)
(* type "Panic": the call never returns.                                   *)
(***************************************************************************)
Response(type, message, title, headers, data) ==
    [type |-> type, message |-> message, title |-> title,
     headers |-> headers, data |-> data]

Exit == Response("Exit", <<>>, <<>>, <<>>, <<>>)

NoOp == Response("NoOp", <<>>, <<>>, <<>>, <<>>)

Panic == Response("Panic", <<>>, <<>>, <<>>, <<>>)

Message(message) == Response("Message", message, <<>>, <<>>, <<>>)

Table(title, headers, data) == Response("Table", <<>>, title, headers, data)

Outcome(st, resp) == [store |-> st, response |-> resp]

format_query_error(error) ==
    IF error.kind = "Conflict"
    THEN Message(Lit("ERROR: Query conflict: ") \o error.message)
    ELSE Message(Lit("ERROR: Query target not found: ") \o error.message)

create_department(st, department_name) ==
    LET r == Departments_create(st, department_name)
    IN  IF r.result.ok
        THEN Outcome(r.index,
                     Message(Lit("Formed \"") \o r.result.value \o Lit("\" department")))
        ELSE Outcome(r.index, format_query_error(r.result))

create_employee(st, employee_name, department_name) ==
    LET d == Departments_department(st, department_name)
    IN  IF ~d.ok THEN Outcome(st, format_query_error(d))
        ELSE LET r == Employees_create(d.value.employees, employee_name)
             IN  IF r.result.ok
                 THEN Outcome(Departments_set_employees(st, department_name, r.index),
                              Message(Lit("Assigned employee \"") \o r.result.value
                                      \o Lit("\" to ") \o d.value.name
                                      \o Lit(" department")))
                 ELSE Outcome(Departments_set_employees(st, department_name, r.index),
                              format_query_error(r.result))

delete_department(st, department_name) ==
    LET r == Departments_delete(st, department_name)
    IN  IF r.result.ok
        THEN Outcome(r.index,
                     Message(Lit("Dissolved \"") \o r.result.value \o Lit("\" department")))
        ELSE Outcome(r.index, format_query_error(r.result))

\* delete_employee answering with the department's display name
delete_employee_display_name(st, employee_name, department_name) ==
    LET d == Departments_department(st, department_name)
    IN  IF ~d.ok THEN Outcome(st, format_query_error(d))
        ELSE LET r == Employees_delete(d.value.employees, employee_name)
             IN  IF r.result.ok
                 THEN Outcome(Departments_set_employees(st, department_name, r.index),
                              Message(Lit("Pulled employee \"") \o employee_name
                                      \o Lit("\" from department \"") \o d.value.name
                                      \o Lit("\"")))
                 ELSE Outcome(Departments_set_employees(st, department_name, r.index),
                              format_query_error(r.result))

delete_employee(st, employee_name, department_name) ==
    LET d == Departments_department(st, department_name)
    IN  IF ~d.ok THEN Outcome(st, format_query_error(d))
        ELSE LET r == Employees_delete(d.value.employees, employee_name)
             IN  IF r.result.ok
                 THEN Outcome(Departments_set_employees(st, department_name, r.index),
                              Message(Lit("Pulled employee \"") \o employee_name
                                      \o Lit("\" from department \"") \o department_name
                                      \o Lit("\"")))
                 ELSE Outcome(Departments_set_employees(st, department_name, r.index),
                              format_query_error(r.result))

\* one table row: HashMap from column name to cell
Row1(column, cell) == [ h \in {column} |-> cell ]

list_departments(st) ==
    LET departments == Departments_list(st)
    IN  Outcome(st, Table(Lit("Showing all Departments"), <<"Department">>,
                          [ i \in 1..Len(departments) |->
                              Row1("Department", departments[i]) ]))

\* the (department name, employee list) groups both employee listings
\* gather: each listed display name is looked up again in the store
department_employee_groups(st) ==
    LET departments == Departments_list(st)
    IN  [ i \in 1..Len(departments) |->
            LET d == Departments_department(st, departments[i])
            IN  [department |-> departments[i],
                 found      |-> d.ok,
                 employees  |-> IF d.ok THEN Employees_list(d.value.employees)
                                        ELSE <<>>] ]

RECURSIVE FlattenGroups(_)
FlattenGroups(groups) ==
    IF groups = <<>> THEN <<>>
    ELSE [ i \in 1..Len(groups[1].employees) |->
             [department |-> groups[1].department,
              employee   |-> groups[1].employees[i]] ]
         \o FlattenGroups(Tail(groups))

\* slice::sort_by_key(|name| name.to_uppercase()): a stable sort
RECURSIVE SortByUppercase(_)
SortByUppercase(names) ==
    IF names = <<>> THEN <<>>
    ELSE LET sorted == SortByUppercase(SubSeq(names, 1, Len(names) - 1))
             x      == names[Len(names)]
             n      == Cardinality({ i \in 1..Len(sorted) :
                          ~StrLess(StrToUppercase(x), StrToUppercase(sorted[i])) })
         IN  SubSeq(sorted, 1, n) \o <<x>> \o SubSeq(sorted, n + 1, Len(sorted))

list_employees(st) ==
    LET groups == department_employee_groups(st)
        flat   == FlattenGroups(groups)
        employees == SortByUppercase([ i \in 1..Len(flat) |-> flat[i].employee ])
    IN  IF \E i \in 1..Len(groups) : ~groups[i].found
        THEN Outcome(st, Panic)
        ELSE Outcome(st, Table(Lit("Showing all Employees"), <<"Employee">>,
                               [ i \in 1..Len(employees) |->
                                   Row1("Employee", employees[i]) ]))

list_employees_by_department(st) ==
    LET groups == department_employee_groups(st)
        department_employees == FlattenGroups(groups)
    IN  IF \E i \in 1..Len(groups) : ~groups[i].found
        THEN Outcome(st, Panic)
        ELSE Outcome(st, Table(Lit("Showing Employees grouped by Department"),
                               <<"Department", "Employee">>,
                               [ i \in 1..Len(department_employees) |->
                                   [ h \in {"Department", "Employee"} |->
                                       IF h = "Department"
                                       THEN department_employees[i].department
                                       ELSE department_employees[i].employee ] ]))

\* a listing that forms the department it does not find
list_employees_in_department_forming(st, department_name) ==
    LET d == Departments_department(st, department_name)
    IN  IF ~d.ok THEN create_department(st, department_name)
        ELSE Outcome(st, Table(Lit("Showing Employees assigned to the ")
                                 \o d.value.name \o Lit(" Department"),
                               <<"Employee">>, <<>>))

list_employees_in_department(st, department_name) ==
    LET d == Departments_department(st, department_name)
    IN  IF ~d.ok THEN Outcome(st, format_query_error(d))
        ELSE LET employees == Employees_list(d.value.employees)
             IN  Outcome(st, Table(Lit("Showing Employees assigned to the ")
                                     \o d.value.name \o Lit(" Department"),
                                   <<"Employee">>,
                                   [ i \in 1..Len(employees) |->
                                       Row1("Employee", employees[i]) ]))

\* move_employee without its same-department test
same_department_unchecked(from_department_name, to_department_name) == FALSE

\* a same-department test on the keys of the departments
same_department_by_key(from_department_name, to_department_name) ==
    departments_to_key(from_department_name) = departments_to_key(to_department_name)

\* the same-department test that opens move_employee
same_department(from_department_name, to_department_name) ==
    from_department_name = to_department_name

\* the message without the prefix of the error messages
SAME_DEPARTMENT_ERR_unprefixed ==
    Lit("Cannot move employee from department to same department")

\* the message of move_employee's same-department arm
SAME_DEPARTMENT_ERR ==
    Lit("ERROR: Cannot move employee from department to same department")

\* move_employee resolving the destination department before the source
move_employee_destination_first(st, employee_name, from_department_name, to_department_name) ==
    IF same_department(from_department_name, to_department_name)
    THEN Outcome(st, Message(SAME_DEPARTMENT_ERR))
    ELSE
    LET to == Departments_department(st, to_department_name)
    IN  IF ~to.ok THEN Outcome(st, format_query_error(to))
        ELSE
        LET from == Departments_department(st, from_department_name)
        IN  IF ~from.ok THEN Outcome(st, format_query_error(from))
            ELSE
            LET found == Employees_employee(from.value.employees, employee_name)
            IN  IF ~found.ok THEN Outcome(st, format_query_error(found))
                ELSE
                LET created == Employees_create(to.value.employees, employee_name)
                    st1 == Departments_set_employees(st, to_department_name,
                                                     created.index)
                IN  IF ~created.result.ok
                    THEN Outcome(st1, format_query_error(
                             Err("Conflict",
                                 Lit("Employee \"") \o employee_name
                                 \o Lit("\" already exists in department \"")
                                 \o to_department_name \o Lit("\""))))
                    ELSE
                    LET deleted == Employees_delete(
                                       BTreeGet(st1, departments_to_key(from_department_name)).employees,
                                       employee_name)
                        st2 == Departments_set_employees(st1, from_department_name,
                                                         deleted.index)
                    IN  Outcome(st2,
                                Message(Lit("Employee \"") \o employee_name
                                        \o Lit("\" transferred from \"")
                                        \o from_department_name \o Lit("\" to \"")
                                        \o to_department_name \o Lit("\" department")))

move_employee(st, employee_name, from_department_name, to_department_name) ==
    IF same_department(from_department_name, to_department_name)
    THEN Outcome(st, Message(SAME_DEPARTMENT_ERR))
    ELSE
    LET from == Departments_department(st, from_department_name)
    IN  IF ~from.ok THEN Outcome(st, format_query_error(from))
        ELSE
        LET found == Employees_employee(from.value.employees, employee_name)
        IN  IF ~found.ok THEN Outcome(st, format_query_error(found))
            ELSE
            LET to == Departments_department(st, to_department_name)
            IN  IF ~to.ok THEN Outcome(st, format_query_error(to))
                ELSE
                LET created == Employees_create(to.value.employees, employee_name)
                    st1 == Departments_set_employees(st, to_department_name,
                                                     created.index)
                IN  IF ~created.result.ok
                    THEN Outcome(st1, format_query_error(
                             Err("Conflict",
                                 Lit("Employee \"") \o employee_name
                                 \o Lit("\" already exists in department \"")
                                 \o to_department_name \o Lit("\""))))
                    ELSE
                    LET from1 == Departments_department(st1, from_department_name)
                    IN  IF ~from1.ok THEN Outcome(st1, Panic)
                        ELSE
                        LET deleted == Employees_delete(from1.value.employees,
                                                        employee_name)
                            st2 == Departments_set_employees(st1, from_department_name,
                                                             deleted.index)
                        IN  IF ~deleted.result.ok THEN Outcome(st2, Panic)
                            ELSE Outcome(st2,
                                 Message(Lit("Employee \"") \o employee_name
                                         \o Lit("\" transferred from \"")
                                         \o from_department_name \o Lit("\" to \"")
                                         \o to_department_name \o Lit("\" department")))

(***************************************************************************)
(* move_employee in its two halves: the checks with the create in the      *)
(* destination (the first store mutation), and the delete from the source  *)
(* (the second) with the answer.  Between them the call is Pending.        *)
(***************************************************************************)
Pending == Response("Pending", <<>>, <<>>, <<>>, <<>>)

\* the checks, then the source delete as the first mutation
move_employee_delete_first(st, employee_name, from_department_name, to_department_name) ==
    IF same_department(from_department_name, to_department_name)
    THEN Outcome(st, Message(SAME_DEPARTMENT_ERR))
    ELSE
    LET from == Departments_department(st, from_department_name)
    IN  IF ~from.ok THEN Outcome(st, format_query_error(from))
        ELSE
        LET found == Employees_employee(from.value.employees, employee_name)
        IN  IF ~found.ok THEN Outcome(st, format_query_error(found))
            ELSE
            LET to == Departments_department(st, to_department_name)
            IN  IF ~to.ok THEN Outcome(st, format_query_error(to))
                ELSE IF Employees_employee(to.value.employees, employee_name).ok
                THEN Outcome(st, format_query_error(
                         Err("Conflict",
                             Lit("Employee \"") \o employee_name
                             \o Lit("\" already exists in department \"")
                             \o to_department_name \o Lit("\""))))
                ELSE Outcome(Departments_set_employees(st, from_department_name,
                                 Employees_delete(from.value.employees,
                                                  employee_name).index),
                             Pending)

\* move_employee up to and with the create in the destination
move_employee_create(st, employee_name, from_department_name, to_department_name) ==
    IF same_department(from_department_name, to_department_name)
    THEN Outcome(st, Message(SAME_DEPARTMENT_ERR))
    ELSE
    LET from == Departments_department(st, from_department_name)
    IN  IF ~from.ok THEN Outcome(st, format_query_error(from))
        ELSE
        LET found == Employees_employee(from.value.employees, employee_name)
        IN  IF ~found.ok THEN Outcome(st, format_query_error(found))
            ELSE
            LET to == Departments_department(st, to_department_name)
            IN  IF ~to.ok THEN Outcome(st, format_query_error(to))
                ELSE
                LET created == Employees_create(to.value.employees, employee_name)
                    st1 == Departments_set_employees(st, to_department_name,
                                                     created.index)
                IN  IF ~created.result.ok
                    THEN Outcome(st1, format_query_error(
                             Err("Conflict",
                                 Lit("Employee \"") \o employee_name
                                 \o Lit("\" already exists in department \"")
                                 \o to_department_name \o Lit("\""))))
                    ELSE Outcome(st1, Pending)

\* the rest of move_employee: the source resolved again, the delete, both
\* unwrapped, and the answer
move_employee_delete(st1, employee_name, from_department_name, to_department_name) ==
    LET from1 == Departments_department(st1, from_department_name)
    IN  IF ~from1.ok THEN Outcome(st1, Panic)
        ELSE
        LET deleted == Employees_delete(from1.value.employees, employee_name)
            st2 == Departments_set_employees(st1, from_department_name,
                                             deleted.index)
        IN  IF ~deleted.result.ok THEN Outcome(st2, Panic)
            ELSE Outcome(st2,
                 Message(Lit("Employee \"") \o employee_name
                         \o Lit("\" transferred from \"")
                         \o from_department_name \o Lit("\" to \"")
                         \o to_department_name \o Lit("\" department")))

(***************************************************************************)
(* Seeding (store/dummy_data.rs): the fixed table of departments and their *)
(* employees, entered through Departments::create and Department::assign.  *)
(* Every .expect of populate panics on an Err.  populate writes its calls  *)
(* through the accessors departments() and department(); the model reads   *)
(* them as departments_mut() and department_mut(), the accessors that lend *)
(* the &mut which create and assign take.                                  *)
(***************************************************************************)
DATA ==
    <<
       [department |-> <<"A","c","c","o","u","n","t","i","n","g">>,
        employees |->
       << <<"L","i","y","a","h"," ","M","e","a","d","o","w","s">>,
          <<"M","i","r","a","n","d","a"," ","R","o","c","h","e">>,
          <<"K","a","c","i"," ","C","o","s","t","a">>,
          <<"K","i","r","k"," ","S","h","o","r","t">>,
          <<"O","l","i","v","i","a","-","M","a","e"," ","S","c","h","n","e","i","d","e","r">>,
          <<"A","n","i","l"," ","M","c","g","r","e","g","o","r">>,
          <<"B","e","n","j","a","m","i","n"," ","C","o","t","t","o","n">>,
          <<"M","a","d","i","s","o","n"," ","W","y","a","t","t">>,
          <<"S","h","y","a","m"," ","C","a","l","d","e","r","o","n">>,
          <<"K","u","r","t","i","s"," ","P","o","l","l","a","r","d">> >>],
       [department |-> <<"D","e","s","i","g","n">>,
        employees |->
       << <<"A","t","i","f"," ","W","e","l","l","s">>,
          <<"C","a","s","p","a","r"," ","W","h","i","t","n","e","y">>,
          <<"I","b","r","a","r"," ","B","l","o","o","m">>,
          <<"K","a","y","d","e","n"," ","S","e","r","r","a","n","o">>,
          <<"A","r","i","y","a","n"," ","J","a","m","e","s">>,
          <<"Z","a","h","r","a","a"," ","M","a","r","r","i","o","t","t">>,
          <<"S","t","e","f","a","n","i","e"," ","H","e","a","l","y">>,
          <<"F","a","t","e","m","a"," ","G","a","r","r","i","s","o","n">>,
          <<"M","a","r","y"," ","S","p","e","n","c","e">>,
          <<"K","e","a","v","y"," ","B","a","r","n","a","r","d">> >>],
       [department |-> <<"E","n","g","i","n","e","e","r","i","n","g">>,
        employees |->
       << <<"A","l","e","j","a","n","d","r","o"," ","H","e","a","t","h">>,
          <<"G","a","i","a"," ","F","l","o","y","d">>,
          <<"A","l","e","s","s","a","n","d","r","a"," ","C","r","e","s","s","w","e","l","l">>,
          <<"H","u","b","e","r","t"," ","F","a","r","l","e","y">>,
          <<"J","o","r","d","a","n","n","a"," ","A","l","l","m","a","n">>,
          <<"S","a","m","i","h","a"," ","Y","o","d","e","r">>,
          <<"W","e","n","d","y"," ","F","l","o","w","e","r","s">>,
          <<"L","a","c","e","y","-","M","a","y"," ","H","a","t","f","i","e","l","d">>,
          <<"L","e","e","l","a"," ","T","o","m","l","i","n","s","o","n">>,
          <<"C","o","r","e","y"," ","B","a","l","d","w","i","n">> >>],
       [department |-> <<"L","o","g","i","s","t","i","c","s">>,
        employees |->
       << <<"Z","a","r","a"," ","D","u","p","o","n","t">>,
          <<"K","i","n","g","s","l","e","y"," ","C","a","l","d","e","r","o","n">>,
          <<"B","e","t","t","y"," ","T","i","e","r","n","e","y">>,
          <<"A","n","n","a","l","i","e","s","e"," ","R","u","s","s","o">>,
          <<"A","r","r","o","n"," ","T","h","a","t","c","h","e","r">>,
          <<"M","o","n","t","y"," ","T","u","r","n","b","u","l","l">>,
          <<"M","e","h","r","e","e","n"," ","O","r","t","i","z">>,
          <<"D","a","r","i","n"," ","R","e","d","m","a","n">>,
          <<"K","a","i","n"," ","B","u","r","t">>,
          <<"S","e","l","i","n","a"," ","C","h","a","s","e">> >>],
       [department |-> <<"P","r","o","d","u","c","t","i","o","n">>,
        employees |->
       << <<"C","o","n","n","i","e"," ","B","o","w","e","n">>,
          <<"F","a","i","z","a","a","n"," ","L","i","n","d","s","a","y">>,
          <<"Z","a","y","a","n"," ","G","e","n","t","r","y">>,
          <<"A","s","a"," ","M","c","c","o","r","m","a","c","k">>,
          <<"M","i","y","a"," ","C","o","n","r","o","y">>,
          <<"W","i","l","f","r","e","d"," ","A","l","b","e","r","t">>,
          <<"G","i","a","c","o","m","o"," ","M","a","l","o","n","e">>,
          <<"A","l","i","s","s","a"," ","M","c","c","a","r","t","h","y">>,
          <<"L","e","e"," ","O","a","k","l","e","y">>,
          <<"K","i","e"," ","S","l","a","t","e","r">> >>],
       [department |-> <<"P","u","r","c","h","a","s","i","n","g">>,
        employees |->
       << <<"B","r","o","g","a","n"," ","B","e","n","j","a","m","i","n">>,
          <<"D","o","m","i","n","i","k"," ","P","i","t","t","m","a","n">>,
          <<"A","l","a","w"," ","M","u","n","o","z">>,
          <<"F","a","t","i","m","a"," ","H","u","a","n","g">>,
          <<"R","a","h","u","l"," ","B","u","s","h">>,
          <<"L","o","w","r","i"," ","G","r","i","f","f","i","t","h","s">>,
          <<"E","s","h","a","n"," ","M","o","r","r","o","w">>,
          <<"A","a","y","a","n"," ","R","i","c","h">>,
          <<"S","u","f","y","a","a","n"," ","S","e","l","l","e","r","s">>,
          <<"L","a","c","e","y"," ","P","r","e","n","t","i","c","e">> >>],
       [department |-> <<"S","a","l","e","s">>,
        employees |->
       << <<"W","a","s","e","e","m"," ","G","u","e","r","r","e","r","o">>,
          <<"M","a","y","s","o","n"," ","K","r","u","e","g","e","r">>,
          <<"C","a","d","i"," ","M","o","s","e","s">>,
          <<"A","b","b","a","s"," ","P","e","t","e","r","s">>,
          <<"D","a","w","i","d"," ","B","o","w","e","n">>,
          <<"R","i","a","z"," ","H","u","l","l">>,
          <<"S","a","h","i","b"," ","M","c","g","r","a","t","h">>,
          <<"C","a","t","r","i","n"," ","L","e","o","n">>,
          <<"A","l","e","y","n","a"," ","M","a","r","k","h","a","m">>,
          <<"E","l","o","u","i","s","e"," ","G","u","e","s","t">> >>]
    >>

\* the value of a call that returns ()
Unit == Response("Unit", <<>>, <<>>, <<>>, <<>>)

\* the inner for_each of populate: Department::assign of every employee,
\* up to the first that fails
RECURSIVE populate_employees(_, _)
populate_employees(index, employees) ==
    IF employees = <<>> THEN [index |-> index, ok |-> TRUE]
    ELSE LET r == Employees_create(index, Head(employees))
         IN  IF ~r.result.ok THEN [index |-> r.index, ok |-> FALSE]
             ELSE populate_employees(r.index, Tail(employees))

\* populate, on the entries of DATA still to enter
RECURSIVE populate_from(_, _)
populate_from(st, data) ==
    IF data = <<>> THEN Outcome(st, Unit)
    ELSE LET entry == Head(data)
             c     == Departments_create(st, entry.department)
         IN  IF ~c.result.ok THEN Outcome(c.index, Panic)
             ELSE LET d == Departments_department(c.index, entry.department)
                  IN  IF ~d.ok THEN Outcome(c.index, Panic)
                      ELSE LET e   == populate_employees(d.value.employees,
                                                         entry.employees)
                               st2 == Departments_set_employees(
                                          c.index, entry.department, e.index)
                           IN  IF ~e.ok THEN Outcome(st2, Panic)
                               ELSE populate_from(st2, Tail(data))

\* populate giving up quietly, the store untouched, where it would panic
populate_returning(st) ==
    LET out == populate_from(st, DATA)
    IN  IF out.response = Panic THEN Outcome(st, Unit) ELSE out

populate(st) == populate_from(st, DATA)

\* Store::seed and Database::seed
Store_seed(st) == populate(st)

(***************************************************************************)
(* The inputs: query lines over a few department and employee names.  The  *)
(* names share the letter s so that they meet SharpS, whose key is "SS":   *)
(* departments s / S (one key, two casings), sa and SharpS; employees      *)
(* "s al" / "S AL" (one key, two casings, the second typed with a run of   *)
(* whitespace between its words) and "<SharpS> al".                        *)
(***************************************************************************)
DepartmentTexts == { <<"s">>, <<"S">>, <<"s", "a">>, <<SharpS>> }

EmployeeTexts ==
    { <<"s", " ", "a", "l">>, <<"S", " ", "\t", "A", "L">>, <<SharpS, " ", "a", "l">> }

Sp == <<" ">>

FormQueries == { <<"F","o","r","m">> \o Sp \o d : d \in DepartmentTexts }

DissolveQueries == { <<"d","i","s","s","o","l","v","e">> \o Sp \o d : d \in DepartmentTexts }

AssignQueries ==
    { <<"a","s","s","i","g","n">> \o Sp \o e \o Sp \o <<"t","o">> \o Sp \o d :
        e \in EmployeeTexts, d \in DepartmentTexts }

PullQueries ==
    { <<"P","u","l","l">> \o Sp \o e \o Sp \o <<"F","R","O","M">> \o Sp \o d :
        e \in EmployeeTexts, d \in DepartmentTexts }

TransferQueries ==
    { <<"t","r","a","n","s","f","e","r">> \o Sp \o e \o Sp \o <<"f","r","o","m">> \o Sp \o a \o Sp \o <<"T","o">> \o Sp \o b :
        e \in EmployeeTexts, a \in DepartmentTexts, b \in DepartmentTexts }

ListQueries ==
    { <<"s","h","o","w">> \o Sp \o <<"d","e","p","a","r","t","m","e","n","t","s">>,
      <<"l","i","s","t">> \o Sp \o <<"e","m","p","l","o","y","e","e","s">>,
      <<"L","i","s","t">> \o Sp \o <<"E","m","p","l","o","y","e","e","s">> \o Sp \o <<"b","y">> \o Sp \o <<"d","e","p","a","r","t","m","e","n","t">> }
    \cup { <<"l","i","s","t">> \o Sp \o <<"e","m","p","l","o","y","e","e","s">> \o Sp \o <<"i","n">> \o Sp \o d : d \in DepartmentTexts }

OtherQueries ==
    { <<>>, <<" ", "\t">>, <<"e","x","i","t">>, <<"H","e","l","p">>, <<"x","y","z">>,
      <<"l","i","s","t">> \o Sp \o <<"b","u","n","n","i","e","s">>,
      <<"f","o","r","m">> \o Sp \o <<"s">> \o Sp \o <<"a">>,
      <<"a","s","s","i","g","n">> \o Sp \o <<"s">> \o Sp \o <<"s">> }

Queries ==
    FormQueries \cup DissolveQueries \cup AssignQueries \cup PullQueries
    \cup TransferQueries \cup ListQueries \cup OtherQueries

\* parse, tabulated over the query lines of the model
ParseTable == [ query \in Queries |-> parse(query) ]

\* the match of Database::query on the parsed command
Dispatch(st, command) ==
        CASE command.type = "EmptyCommand" -> Outcome(st, NoOp)
          [] command.type = "Exit" -> Outcome(st, Exit)
          [] command.type = "InvalidCommandErr" ->
                Outcome(st, Message(Lit("ERROR: Invalid command \"") \o command.a
                    \o Lit("\". Please check your spelling, or type \"Help\" for the list of available commands")))
          [] command.type = "SyntaxErr" ->
                Outcome(st, Message(Lit("ERROR: Invalid command syntax: ") \o command.a))
          [] command.type = "Help" -> Outcome(st, Message(help))
          [] command.type = "ShowDepartments" -> list_departments(st)
          [] command.type = "FormDepartment" -> create_department(st, command.a)
          [] command.type = "ListEmployees" -> list_employees(st)
          [] command.type = "ListEmployeesByDepartment" ->
                list_employees_by_department(st)
          [] command.type = "ListEmployeesInDepartment" ->
                list_employees_in_department(st, command.a)
          [] command.type = "AssignEmployeeToDepartment" ->
                create_employee(st, command.a, command.b)
          [] command.type = "TransferEmployeeBetweenDepartments" ->
                move_employee(st, command.a, command.b, command.c)
          [] command.type = "PullEmployeeFromDepartment" ->
                delete_employee(st, command.a, command.b)
          [] command.type = "DissolveDepartment" -> delete_department(st, command.a)

\* Database::query: parse, then dispatch on the command
Database_query(st, query) == Dispatch(st, ParseTable[query])

(***************************************************************************)
(* The state machine: a Database (store), and the record of its last       *)
(* query: the store before it, the command it parsed to and the response.  *)
(* input and output are the argument and the value of a function applied   *)
(* on its own (see the specifications of the parser and the normalizers);  *)
(* the database leaves them alone.                                         *)
(***************************************************************************)
NoInput == [fn |-> "none", words |-> <<>>, text |-> <<>>]

NoOutput == [fn |-> "none", value |-> <<>>]

WithinBounds(st) == Len(st) <= MaxDepartments

\* Database::new; no query has been answered yet
Init ==
    /\ store = Store_new
    /\ before = Store_new
    /\ lastCommand = Command("EmptyCommand", <<>>, <<>>, <<>>)
    /\ response = NoOp
    /\ input = NoInput
    /\ output = NoOutput

\* one call of Database::query
Query(query) ==
    /\ response.type # "Panic"
    /\ LET out == Database_query(store, query)
       IN  /\ WithinBounds(out.store)
           /\ store' = out.store
           /\ before' = store
           /\ lastCommand' = ParseTable[query]
           /\ response' = out.response
           /\ UNCHANGED <<input, output>>

Next == \E query \in Queries : Query(query)

Spec == Init /\ [][Next]_vars

(***************************************************************************)
(* The normalizers on their own: to_key and to_name of departments.rs and  *)
(* of employees.rs, applied to one text of at most MaxTextLen characters.  *)
(***************************************************************************)
\* longest text handed to a normalizer
MaxTextLen == 3

NormalizerChars == { "a", "B", SharpS, " " }

NormalizerTexts == UNION { [1..n -> NormalizerChars] : n \in 0..MaxTextLen }

InitNormalize ==
    /\ store = Store_new
    /\ before = Store_new
    /\ lastCommand = Command("EmptyCommand", <<>>, <<>>, <<>>)
    /\ response = NoOp
    /\ input \in { [fn |-> fn, words |-> <<>>, text |-> text] :
                      fn \in {"departments", "employees"},
                      text \in NormalizerTexts }
    /\ output = NoOutput

\* departments.rs: to_key and to_name of one text, as Departments::create and
\* Department::new apply them
NormalizeDepartment ==
    /\ input.fn = "departments"
    /\ output.fn = "none"
    /\ output' = [fn    |-> "departments",
                  value |-> [key  |-> departments_to_key(input.text),
                             name |-> departments_to_name(input.text)]]
    /\ UNCHANGED <<store, before, lastCommand, response, input>>

\* employees.rs: to_key and to_name of one text, as Employees::create and
\* Employee::new apply them
NormalizeEmployee ==
    /\ input.fn = "employees"
    /\ output.fn = "none"
    /\ output' = [fn    |-> "employees",
                  value |-> [key  |-> employees_to_key(input.text),
                             name |-> employees_to_name(input.text)]]
    /\ UNCHANGED <<store, before, lastCommand, response, input>>

NextNormalize == NormalizeDepartment \/ NormalizeEmployee

SpecNormalize == InitNormalize /\ [][NextNormalize]_vars

(***************************************************************************)
(* The parser on its own: the first query of a new database, its line made *)
(* of a first word and at most MaxTokens further words (MaxListTokens      *)
(* after LIST, whose words are its own), separated and surrounded by       *)
(* whitespace.                                                             *)
(***************************************************************************)
\* most words after the first word of a line
MaxTokens == 6

\* most words after the word LIST
MaxListTokens == 4

FirstWords ==
    { <<"a","S","S","i","g","n">>, <<"P","u","l","l">>, <<"x","y","z">>, <<"t","o">>,
      <<"T","r","a","n","s","f","e","r">>, <<"F","o","r","m">>,
      <<"d","i","s","s","o","l","v","e">> }

ListWord == <<"L","i","s","t">>

ListArgumentWords ==
    { <<"E","m","p","l","o","y","e","e","s">>, <<"e","m","p","l","o","y","e","e">>,
      <<"b","Y">>, <<"D","e","p","a","r","t","m","e","n","t">>, <<"I","n">>, <<"s">> }

ArgumentWords == { <<"t","O">>, <<"f","r","o","m">>, <<"s">> }

Separators == { <<" ">>, <<"\t", " ">> }

RECURSIVE JoinWith(_, _)
JoinWith(words, separator) ==
    IF words = <<>> THEN <<>>
    ELSE IF Len(words) = 1 THEN words[1]
    ELSE words[1] \o separator \o JoinWith(Tail(words), separator)

WordSeqs ==
    {<<>>} \cup { <<first>> \o rest :
                    first \in FirstWords,
                    rest \in UNION { [1..n -> ArgumentWords] : n \in 0..MaxTokens } }
    \cup { <<ListWord>> \o rest :
             rest \in UNION { [1..n -> ListArgumentWords] : n \in 0..MaxListTokens } }

ParseInputs ==
    { [fn |-> "parse", words |-> words,
       text |-> lead \o JoinWith(words, separator) \o trail] :
        words \in WordSeqs, separator \in Separators,
        lead \in {<<>>, <<" ">>}, trail \in {<<>>, <<"\t">>} }

InitParse ==
    /\ store = Store_new
    /\ before = Store_new
    /\ lastCommand = Command("EmptyCommand", <<>>, <<>>, <<>>)
    /\ response = NoOp
    /\ input \in ParseInputs
    /\ output = NoOutput

\* Database::query of the line: commands::parse, then the dispatch
QueryLine ==
    /\ input.fn = "parse"
    /\ output.fn = "none"
    /\ LET command == parse(input.text)
           out     == Dispatch(store, command)
       IN  /\ store' = out.store
           /\ before' = store
           /\ lastCommand' = command
           /\ response' = out.response
           /\ output' = [fn |-> "parse", value |-> command]
    /\ UNCHANGED input

NextParse == QueryLine

SpecParse == InitParse /\ [][NextParse]_vars

(***************************************************************************)
(* Seeding among queries: Database::seed called at any time on a database  *)
(* that also answers FORM and DISSOLVE of departments of the seed table    *)
(* (typed in other casings) and of one department that is not in it.       *)
(***************************************************************************)
SeedDepartmentTexts ==
    { <<"s","a","l","e","s">>, <<"A","C","C","O","U","N","T","I","N","G">>, <<"s">> }

SeedQueries ==
    { <<"f","o","r","m">> \o Sp \o d : d \in SeedDepartmentTexts }
    \cup { <<"d","i","s","s","o","l","v","e">> \o Sp \o d : d \in SeedDepartmentTexts }

SeedParseTable == [ query \in SeedQueries |-> parse(query) ]

\* one call of Database::query
SeedQuery(query) ==
    /\ response.type # "Panic"
    /\ LET out == Dispatch(store, SeedParseTable[query])
       IN  /\ store' = out.store
           /\ before' = store
           /\ lastCommand' = SeedParseTable[query]
           /\ response' = out.response
    /\ UNCHANGED <<input, output>>

\* one call of Database::seed; the record of the last call names it "Seed"
Seed ==
    /\ response.type # "Panic"
    /\ LET out == Store_seed(store)
       IN  /\ store' = out.store
           /\ before' = store
           /\ lastCommand' = Command("Seed", <<>>, <<>>, <<>>)
           /\ response' = out.response
    /\ UNCHANGED <<input, output>>

NextSeed == Seed \/ \E query \in SeedQueries : SeedQuery(query)

SpecSeed == Init /\ [][NextSeed]_vars

(***************************************************************************)
(* The database with move_employee in two steps: TransferCreate runs the   *)
(* checks and the create in the destination, TransferDelete the delete     *)
(* from the source.  output holds the transfer in progress; every other    *)
(* query is one step, as in Spec.                                          *)
(***************************************************************************)
InProgress == output.fn = "move_employee"

TransferCreate(query) ==
    /\ response.type # "Panic"
    /\ ~InProgress
    /\ ParseTable[query].type = "TransferEmployeeBetweenDepartments"
    /\ LET command == ParseTable[query]
           out == move_employee_create(store, command.a, command.b, command.c)
       IN  /\ WithinBounds(out.store)
           /\ store' = out.store
           /\ before' = store
           /\ lastCommand' = command
           /\ response' = out.response
           /\ output' = IF out.response = Pending
                         THEN [fn |-> "move_employee", value |-> command]
                         ELSE NoOutput
    /\ UNCHANGED input

TransferDelete ==
    /\ InProgress
    /\ LET command == output.value
           out == move_employee_delete(store, command.a, command.b, command.c)
       IN  /\ store' = out.store
           /\ response' = out.response
           /\ output' = NoOutput
    /\ UNCHANGED <<before, lastCommand, input>>

OtherQuery(query) ==
    /\ ~InProgress
    /\ ParseTable[query].type # "TransferEmployeeBetweenDepartments"
    /\ Query(query)

NextSteps ==
    \/ \E query \in Queries : TransferCreate(query)
    \/ TransferDelete
    \/ \E query \in Queries : OtherQuery(query)

SpecSteps == Init /\ [][NextSteps]_vars

(***************************************************************************)
(* The database under commands and their inverses: two departments, and    *)
(* employees typed in three ways, two of which ("ss al" and "<SharpS> al") *)
(* have one key, "SS AL", and different display names.                     *)
(***************************************************************************)
InverseDepartmentTexts == { <<"s">>, <<"s", "a">> }

InverseEmployeeTexts ==
    { <<"s", " ", "a", "l">>, <<"s", "s", " ", "a", "l">>, <<SharpS, " ", "a", "l">> }

InverseQueries ==
    { <<"f","o","r","m">> \o Sp \o d : d \in InverseDepartmentTexts }
    \cup { <<"d","i","s","s","o","l","v","e">> \o Sp \o d : d \in InverseDepartmentTexts }
    \cup { <<"a","s","s","i","g","n">> \o Sp \o e \o Sp \o <<"t","o">> \o Sp \o d :
             e \in InverseEmployeeTexts, d \in InverseDepartmentTexts }
    \cup { <<"p","u","l","l">> \o Sp \o e \o Sp \o <<"f","r","o","m">> \o Sp \o d :
             e \in InverseEmployeeTexts, d \in InverseDepartmentTexts }
    \cup { <<"t","r","a","n","s","f","e","r">> \o Sp \o e \o Sp \o <<"f","r","o","m">>
               \o Sp \o a \o Sp \o <<"t","o">> \o Sp \o b :
             e \in InverseEmployeeTexts,
             a \in InverseDepartmentTexts, b \in InverseDepartmentTexts }

InverseParseTable == [ query \in InverseQueries |-> parse(query) ]

\* one call of Database::query
InverseQuery(query) ==
    /\ response.type # "Panic"
    /\ LET out == Dispatch(store, InverseParseTable[query])
       IN  /\ WithinBounds(out.store)
           /\ store' = out.store
           /\ before' = store
           /\ lastCommand' = InverseParseTable[query]
           /\ response' = out.response
    /\ UNCHANGED <<input, output>>

NextInverse == \E query \in InverseQueries : InverseQuery(query)

SpecInverse == Init /\ [][NextInverse]_vars

(***************************************************************************)
(* Properties.  Each is stated on the record of the last query: the store  *)
(* before it (before), the command (lastCommand), the store after it       *)
(* (store) and the response.                                               *)
(***************************************************************************)
IsTransfer == lastCommand.type = "TransferEmployeeBetweenDepartments"

HasDepartment(st, department) ==
    \E i \in 1..Len(st) : st[i].key = departments_to_key(department)

\* the employee records of department `department` stored under the key of
\* `employee`, as (department position, employee position) pairs
Records(st, department, employee) ==
    { p \in UNION { { <<i, j>> : j \in 1..Len(st[i].value.employees) } :
                    i \in 1..Len(st) } :
        /\ st[p[1]].key = departments_to_key(department)
        /\ st[p[1]].value.employees[p[2]].key = employees_to_key(employee) }

Holds(st, department, employee) == Records(st, department, employee) # {}

RECURSIVE TotalRecords(_)
TotalRecords(st) ==
    IF st = <<>> THEN 0
    ELSE Len(st[1].value.employees) + TotalRecords(Tail(st))

IsErrorResponse(r) ==
    /\ r.type = "Message"
    /\ r.message # <<>>
    /\ r.message[1] \in
         { "ERROR: Query conflict: ", "ERROR: Query target not found: ",
           "ERROR: Cannot move employee from department to same department" }

TransferPrecondition ==
    /\ IsTransfer
    /\ HasDepartment(before, lastCommand.b)
    /\ HasDepartment(before, lastCommand.c)
    /\ departments_to_key(lastCommand.b) # departments_to_key(lastCommand.c)
    /\ Holds(before, lastCommand.b, lastCommand.a)
    /\ ~Holds(before, lastCommand.c, lastCommand.a)

\* C1: after `transfer e from A to B`, for existing departments A and B with
\* different keys and e's key present in A and absent from B, no record of e
\* is left in A and exactly one record of e, showing to_name(e), is in B.
C1_TransferSuccess ==
    TransferPrecondition =>
        /\ Records(store, lastCommand.b, lastCommand.a) = {}
        /\ Cardinality(Records(store, lastCommand.c, lastCommand.a)) = 1
        /\ \A p \in Records(store, lastCommand.c, lastCommand.a) :
               Employees_list(store[p[1]].value.employees)[p[2]]
                   = employees_to_name(lastCommand.a)

\* a successful transfer out of a department that keeps another employee
C1_Witness ==
    /\ TransferPrecondition
    /\ TotalRecords(before) >= 2
    /\ response.type = "Message"

\* C2: whatever a transfer of e between A and B answers, if e's key was in
\* exactly one of A and B before it, it is in exactly one of them after it,
\* and the store holds as many employee records after it as before it.
C2_TransferConserves ==
    IsTransfer =>
        /\ (Holds(before, lastCommand.b, lastCommand.a)
              # Holds(before, lastCommand.c, lastCommand.a))
           => (Holds(store, lastCommand.b, lastCommand.a)
                 # Holds(store, lastCommand.c, lastCommand.a))
        /\ TotalRecords(store) = TotalRecords(before)

\* a transfer that moves the employee, counted among other records
C2_Witness ==
    /\ IsTransfer
    /\ Holds(before, lastCommand.b, lastCommand.a)
    /\ ~Holds(before, lastCommand.c, lastCommand.a)
    /\ Holds(store, lastCommand.c, lastCommand.a)
    /\ TotalRecords(store) >= 2

TransferMustFail ==
    /\ IsTransfer
    /\ \/ ~HasDepartment(before, lastCommand.b)
       \/ ~HasDepartment(before, lastCommand.c)
       \/ ~Holds(before, lastCommand.b, lastCommand.a)
       \/ Holds(before, lastCommand.c, lastCommand.a)

\* C3: a transfer answers with an error and leaves the whole store as it was
\* when the source department does not exist, the destination department
\* does not exist, the employee's key is not in the source, or the
\* employee's key is already in the destination.
C3_TransferFailsCleanly ==
    TransferMustFail => (IsErrorResponse(response) /\ store = before)

\* the destination, another department, already holds the employee's key
C3_Witness ==
    /\ IsTransfer
    /\ departments_to_key(lastCommand.b) # departments_to_key(lastCommand.c)
    /\ Holds(before, lastCommand.b, lastCommand.a)
    /\ Holds(before, lastCommand.c, lastCommand.a)
    /\ IsErrorResponse(response)

\* C4: a transfer whose from and to texts are the same string answers with
\* the same-department error and leaves the store as it was, whether or not
\* the department or the employee exists.
C4_SameDepartmentTransfer ==
    (IsTransfer /\ lastCommand.b = lastCommand.c) =>
        /\ response = Message(Lit("ERROR: Cannot move employee from department to same department"))
        /\ store = before

\* a same-department transfer naming a department that does not exist
C4_Witness ==
    /\ IsTransfer
    /\ lastCommand.b = lastCommand.c
    /\ ~HasDepartment(before, lastCommand.b)
    /\ before # <<>>
    /\ response.type = "Message"

IsForm == lastCommand.type = "FormDepartment"

IsDissolve == lastCommand.type = "DissolveDepartment"

IsAssign == lastCommand.type = "AssignEmployeeToDepartment"

IsPull == lastCommand.type = "PullEmployeeFromDepartment"

IsListIn == lastCommand.type = "ListEmployeesInDepartment"

\* the department stored under the key of `department`
DepartmentOf(st, department) == BTreeGet(st, departments_to_key(department))

\* no two names of the list are equal ignoring case
DistinctIgnoringCase(names) ==
    \A i, j \in 1..Len(names) :
        i # j => StrToUppercase(names[i]) # StrToUppercase(names[j])

\* C5: the department list never contains two departments whose names are
\* equal ignoring case.
C5_DepartmentNamesUnique == DistinctIgnoringCase(Departments_list(store))

\* the stored department keys are pairwise different
C5_DepartmentKeysUnique ==
    \A i, j \in 1..Len(store) : i # j => store[i].key # store[j].key

\* C6: no department's employee list contains two names equal ignoring case,
\* while `assign e to B` succeeds whenever B exists and does not hold e's
\* key, whatever the other departments hold, and leaves them as they were.
C6_EmployeeNamesUniquePerDepartment ==
    /\ \A i \in 1..Len(store) :
           DistinctIgnoringCase(Employees_list(store[i].value.employees))
    /\ (IsAssign /\ HasDepartment(before, lastCommand.b)
               /\ ~Holds(before, lastCommand.b, lastCommand.a))
       => /\ response.type = "Message"
          /\ ~IsErrorResponse(response)
          /\ Cardinality(Records(store, lastCommand.b, lastCommand.a)) = 1
          /\ \A i \in 1..Len(before) :
                 before[i].key # departments_to_key(lastCommand.b)
                     => store[i] = before[i]

\* C7: forming a department whose key the store already holds, in any
\* casing, answers with a Conflict and leaves the department list and the
\* existing department's employees as they were.
C7_SecondCreateConflicts ==
    (IsForm /\ HasDepartment(before, lastCommand.a)) =>
        /\ response.type = "Message"
        /\ response.message[1] = "ERROR: Query conflict: "
        /\ Departments_list(store) = Departments_list(before)
        /\ store = before

\* the department is typed in another casing than its display name and holds
\* an employee
C7_Witness ==
    /\ IsForm
    /\ HasDepartment(before, lastCommand.a)
    /\ DepartmentOf(before, lastCommand.a).name # lastCommand.a
    /\ DepartmentOf(before, lastCommand.a).employees # <<>>
    /\ IsErrorResponse(response)

\* C8: dissolving an existing department d removes d and all of its
\* employees and nothing else, and a department formed (again) starts with
\* no employee: nothing of a dissolved department comes back.
C8_DissolveCascades ==
    /\ (IsDissolve /\ HasDepartment(before, lastCommand.a)) =>
           /\ ~HasDepartment(store, lastCommand.a)
           /\ Len(store) = Len(before) - 1
           /\ \A i \in 1..Len(before) :
                  before[i].key # departments_to_key(lastCommand.a)
                      => \E j \in 1..Len(store) : store[j] = before[i]
           /\ TotalRecords(store) = TotalRecords(before)
                  - Len(DepartmentOf(before, lastCommand.a).employees)
    /\ (IsForm /\ ~HasDepartment(before, lastCommand.a)) =>
           /\ HasDepartment(store, lastCommand.a)
           /\ DepartmentOf(store, lastCommand.a).employees = <<>>
           /\ TotalRecords(store) = TotalRecords(before)

\* a department holding an employee is dissolved
C8_Witness ==
    /\ IsDissolve
    /\ HasDepartment(before, lastCommand.a)
    /\ DepartmentOf(before, lastCommand.a).employees # <<>>
    /\ Len(before) = 2
    /\ ~IsErrorResponse(response)

\* the names of the list ascend (not strictly) by uppercased name
SortedByKey(names) ==
    \A i, j \in 1..Len(names) :
        i < j => ~StrLess(StrToUppercase(names[j]), StrToUppercase(names[i]))

\* C9: the department list and every department's employee list are sorted
\* ascending by key, the uppercased name.
C9_ListsSortedByKey ==
    /\ SortedByKey(Departments_list(store))
    /\ \A i \in 1..Len(store) :
           SortedByKey(Employees_list(store[i].value.employees))

\* the entries of every index ascend strictly by their stored keys
C9_EntriesAscendByStoredKey ==
    /\ \A i, j \in 1..Len(store) : i < j => StrLess(store[i].key, store[j].key)
    /\ \A d \in 1..Len(store) :
           \A i, j \in 1..Len(store[d].value.employees) :
               i < j => StrLess(store[d].value.employees[i].key,
                                store[d].value.employees[j].key)

\* C10: form of an existing key, dissolve of an absent key, assign to an
\* absent department, assign of an existing employee key, pull from an
\* absent department and pull of an absent employee key answer with an
\* error, and every form, dissolve, assign, pull or list-in-department query
\* answered with an error leaves the store as it was.
C10_StoreErrorsDoNotMutate ==
    /\ (IsForm /\ HasDepartment(before, lastCommand.a)) => IsErrorResponse(response)
    /\ (IsDissolve /\ ~HasDepartment(before, lastCommand.a)) => IsErrorResponse(response)
    /\ (IsAssign /\ ~HasDepartment(before, lastCommand.b)) => IsErrorResponse(response)
    /\ (IsAssign /\ Holds(before, lastCommand.b, lastCommand.a)) => IsErrorResponse(response)
    /\ (IsPull /\ ~HasDepartment(before, lastCommand.b)) => IsErrorResponse(response)
    /\ (IsPull /\ ~Holds(before, lastCommand.b, lastCommand.a)) => IsErrorResponse(response)
    /\ ((IsForm \/ IsDissolve \/ IsAssign \/ IsPull \/ IsListIn)
          /\ IsErrorResponse(response)) => store = before

\* a pull of an absent employee key from a department that holds another
C10_Witness ==
    /\ IsPull
    /\ HasDepartment(before, lastCommand.b)
    /\ ~Holds(before, lastCommand.b, lastCommand.a)
    /\ DepartmentOf(before, lastCommand.b).employees # <<>>
    /\ IsErrorResponse(response)

NonMutatingCommands ==
    { "InvalidCommandErr", "SyntaxErr", "EmptyCommand", "Exit", "Help",
      "ShowDepartments", "ListEmployees", "ListEmployeesByDepartment",
      "ListEmployeesInDepartment" }

\* C11: a query that parses to InvalidCommandErr, SyntaxErr, EmptyCommand,
\* Exit, Help or one of the four listings leaves the store as it was.
C11_ReadOnlyCommandsKeepStore ==
    lastCommand.type \in NonMutatingCommands => store = before

\* a listing of a department the store does not hold, asked of a store that
\* holds an assigned employee
C11_Witness ==
    /\ IsListIn
    /\ ~HasDepartment(before, lastCommand.a)
    /\ TotalRecords(store) >= 1

\* C12: every stored department and every stored employee is filed under
\* the key of its stored display name: key = to_key(name).
C12_KeyIsKeyOfName ==
    \A i \in 1..Len(store) :
        /\ store[i].key = departments_to_key(store[i].value.name)
        /\ \A j \in 1..Len(store[i].value.employees) :
               store[i].value.employees[j].key
                   = employees_to_key(store[i].value.employees[j].value.name)

\* the key of every stored entry is the key of the name typed with the
\* command that stored it, whatever its casing
C12_KeyIsKeyOfTypedName ==
    /\ (IsForm /\ store # before) =>
           BTreeHas(store, departments_to_key(lastCommand.a))
    /\ (IsAssign /\ store # before) =>
           Holds(store, lastCommand.b, lastCommand.a)

\* the words of the text are separated by single spaces, with no whitespace
\* before the first or after the last
SingleSpaced(text) == JoinWords(split_whitespace(text)) = text

\* C13: for both normalizers and any text x, to_key(to_name(x)) = to_key(x),
\* texts of several words and with runs of whitespace included.
C13_NameKeepsKey ==
    /\ output.fn = "departments" =>
           departments_to_key(output.value.name) = output.value.key
    /\ output.fn = "employees" =>
           employees_to_key(output.value.name) = output.value.key

\* the round trip holds on the texts without SharpS whose words, for the
\* employee normalizer, are separated by single spaces
C13_NameKeepsKeyOfPlainText ==
    /\ (output.fn = "departments" /\ SharpS \notin Range(input.text)) =>
           departments_to_key(output.value.name) = output.value.key
    /\ (output.fn = "employees" /\ SharpS \notin Range(input.text)
           /\ SingleSpaced(input.text)) =>
           employees_to_key(output.value.name) = output.value.key

AssignPrecondition ==
    /\ IsAssign
    /\ HasDepartment(before, lastCommand.b)
    /\ ~Holds(before, lastCommand.b, lastCommand.a)

\* the rows of the table `list employees in department` answers with
RowsIn(st, department) ==
    list_employees_in_department(st, department).response.data

\* how many rows of the table show the employee name
CountOf(rows, name) ==
    Cardinality({ i \in 1..Len(rows) : rows[i] = Row1("Employee", name) })

AssignedMessage ==
    Message(Lit("Assigned employee \"") \o employees_to_name(lastCommand.a)
            \o Lit("\" to ") \o DepartmentOf(before, lastCommand.b).name
            \o Lit(" department"))

\* C14: `assign e to d`, with d an existing department typed in any casing
\* and e's key absent from it, answers `Assigned employee "<title-cased e>"
\* to <d's display name> department`, and `list employees in d` afterwards
\* contains the title-cased e exactly once.
C14_AssignAnswersAndLists ==
    AssignPrecondition =>
        /\ response = AssignedMessage
        /\ CountOf(RowsIn(store, lastCommand.b),
                   employees_to_name(lastCommand.a)) = 1

\* the same assignment answers with that message and files exactly one
\* record under e's key, showing the title-cased e
C14_AssignAnswersAndFiles ==
    AssignPrecondition =>
        /\ response = AssignedMessage
        /\ Cardinality(Records(store, lastCommand.b, lastCommand.a)) = 1
        /\ \A p \in Records(store, lastCommand.b, lastCommand.a) :
               RowsIn(store, lastCommand.b)[p[2]]
                   = Row1("Employee", employees_to_name(lastCommand.a))

PullPrecondition ==
    /\ IsPull
    /\ Holds(before, lastCommand.b, lastCommand.a)

\* the sequence without its element at position j
Without(seq, j) == SubSeq(seq, 1, j - 1) \o SubSeq(seq, j + 1, Len(seq))

\* C15: `pull e from d`, with e's key in department d, removes e from d's
\* employee list and answers `Pulled employee "<e>" from department "<d>"`,
\* e and d exactly as the command carries them.
C15_PullRemovesAndAnswers ==
    PullPrecondition =>
        /\ response = Message(Lit("Pulled employee \"") \o lastCommand.a
                               \o Lit("\" from department \"") \o lastCommand.b
                               \o Lit("\""))
        /\ ~Holds(store, lastCommand.b, lastCommand.a)
        /\ \A p \in Records(before, lastCommand.b, lastCommand.a) :
               Employees_list(DepartmentOf(store, lastCommand.b).employees)
                 = Without(Employees_list(
                               DepartmentOf(before, lastCommand.b).employees), p[2])

\* a pull from a department typed in another casing than its display name,
\* which keeps another employee
C15_Witness ==
    /\ PullPrecondition
    /\ lastCommand.b # DepartmentOf(before, lastCommand.b).name
    /\ DepartmentOf(store, lastCommand.b).employees # <<>>
    /\ response.type = "Message"

\* the (department, employee) records of the store, in the order of the
\* department keys and, within a department, of the employee keys
RECURSIVE StoredRecords(_)
StoredRecords(st) ==
    IF st = <<>> THEN <<>>
    ELSE [ j \in 1..Len(st[1].value.employees) |->
             [department |-> st[1].value.name,
              employee   |-> st[1].value.employees[j].value.name] ]
         \o StoredRecords(Tail(st))

Occurrences(seq, x) == Cardinality({ i \in 1..Len(seq) : seq[i] = x })

\* both sequences hold the same elements the same number of times
SameBag(s1, s2) ==
    /\ Len(s1) = Len(s2)
    /\ \A x \in Range(s1) \cup Range(s2) : Occurrences(s1, x) = Occurrences(s2, x)

\* every stored entry is filed under the key of its display name
KeysAgree(st) ==
    \A i \in 1..Len(st) :
        /\ st[i].key = departments_to_key(st[i].value.name)
        /\ \A j \in 1..Len(st[i].value.employees) :
               st[i].value.employees[j].key
                   = employees_to_key(st[i].value.employees[j].value.name)

IsListEmployees == lastCommand.type = "ListEmployees"

ListEmployeesAnswer ==
    /\ response.type = "Table"
    /\ LET records == StoredRecords(before)
           shown   == [ i \in 1..Len(response.data) |-> response.data[i]["Employee"] ]
       IN  /\ SameBag(shown, [ i \in 1..Len(records) |-> records[i].employee ])
           /\ SortedByKey(shown)

\* C16: `list employees` answers with one row per (department, employee)
\* record, so that a name held by k departments appears k times, the rows
\* sorted ascending by the uppercased employee name.
C16_ListEmployeesShowsEveryRecord == IsListEmployees => ListEmployeesAnswer

\* the same, on the stores whose entries are all filed under the key of
\* their display name
C16_ListEmployeesWhenKeysAgree ==
    (IsListEmployees /\ KeysAgree(before)) => ListEmployeesAnswer

IsListByDepartment == lastCommand.type = "ListEmployeesByDepartment"

ListByDepartmentAnswer ==
    /\ response.type = "Table"
    /\ LET records == StoredRecords(before)
       IN  response.data
             = [ i \in 1..Len(records) |->
                   [ h \in {"Department", "Employee"} |->
                       IF h = "Department" THEN records[i].department
                                           ELSE records[i].employee ] ]

\* C17: `list employees by department` answers with one (Department,
\* Employee) row per record, ordered by department key and then by employee
\* key; a department without employees contributes no row.
C17_ListByDepartmentShowsEveryRecord ==
    IsListByDepartment => ListByDepartmentAnswer

\* the same, on the stores whose entries are all filed under the key of
\* their display name
C17_ListByDepartmentWhenKeysAgree ==
    (IsListByDepartment /\ KeysAgree(before)) => ListByDepartmentAnswer

IsSameDepartmentTransfer == IsTransfer /\ lastCommand.b = lastCommand.c

\* C18: the response to a transfer whose from and to department names are
\* the same string is a message whose text is exactly `Cannot move employee
\* from department to same department`.
C18_SameDepartmentTextUnprefixed ==
    IsSameDepartmentTransfer =>
        /\ response.type = "Message"
        /\ response.message
             = <<"Cannot move employee from department to same department">>

\* C18, amended: the text is exactly `ERROR: Cannot move employee from
\* department to same department`.
C18_SameDepartmentText ==
    IsSameDepartmentTransfer =>
        /\ response.type = "Message"
        /\ response.message
             = <<"ERROR: Cannot move employee from department to same department">>

\* a transfer of an employee from the department holding it to that same
\* department, typed the same way
C18_Witness ==
    /\ IsSameDepartmentTransfer
    /\ Holds(before, lastCommand.b, lastCommand.a)
    /\ response.type = "Message"

Parsed == output.fn = "parse"

\* the words parse knows in the first place of a line, uppercased
CommandKeywords ==
    KwExit \cup KwHelp
    \cup {KwShow, KwList, KwAssign, KwTransfer, KwPull, KwForm, KwDissolve}

\* C19: a line without tokens (empty or whitespace only) parses to
\* EmptyCommand and is answered NoOp; a line whose first token is no known
\* keyword, ignoring case, parses to InvalidCommandErr carrying that token as
\* typed, never to SyntaxErr, whatever tokens follow.
C19_EmptyAndInvalidLines ==
    Parsed =>
        /\ input.words = <<>> =>
               /\ lastCommand = Command("EmptyCommand", <<>>, <<>>, <<>>)
               /\ response = NoOp
        /\ (input.words # <<>>
              /\ StrToUppercase(input.words[1]) \notin CommandKeywords) =>
               lastCommand = Command("InvalidCommandErr", input.words[1], <<>>, <<>>)

\* a line of whitespace only has been parsed
C19_WitnessEmpty ==
    /\ Parsed
    /\ input.words = <<>>
    /\ input.text # <<>>

\* an unknown first word followed by the words of an assignment has been
\* parsed
C19_Witness ==
    /\ Parsed
    /\ Len(input.words) >= 4
    /\ StrToUppercase(input.words[1]) \notin CommandKeywords
    /\ lastCommand.type = "InvalidCommandErr"

\* what parsing from the right yields for the tokens after the keyword:
\* the command when there are three tokens or more and the last but one is
\* `link` ignoring case, the fixed syntax error otherwise
FromTheRight(tokens, link, type, message) ==
    LET n == Len(tokens)
    IN  IF n >= 3 /\ StrToUppercase(tokens[n - 1]) = link
        THEN Command(type, JoinWords(SubSeq(tokens, 1, n - 2)), tokens[n], <<>>)
        ELSE SyntaxErr(message)

\* C20: the tokens after ASSIGN (PULL) parse to AssignEmployeeToDepartment
\* (PullEmployeeFromDepartment), with the first n-2 tokens joined by single
\* spaces as employee and the last token as department, exactly when n >= 3
\* and the last but one token is TO (FROM) ignoring case; every other token
\* sequence yields the one fixed syntax error of the command.
C20_AssignAndPullFromTheRight ==
    (Parsed /\ input.words # <<>>) =>
        /\ StrToUppercase(input.words[1]) = KwAssign =>
               lastCommand = FromTheRight(Tail(input.words), KwTo,
                                 "AssignEmployeeToDepartment", ASSIGN_SYNTAX_ERR)
        /\ StrToUppercase(input.words[1]) = KwPull =>
               lastCommand = FromTheRight(Tail(input.words), KwFrom,
                                 "PullEmployeeFromDepartment", PULL_SYNTAX_ERR)

\* an assignment whose employee name contains the word TO has been parsed
C20_Witness ==
    /\ Parsed
    /\ lastCommand.type = "AssignEmployeeToDepartment"
    /\ \E i \in 2..(Len(input.words) - 2) :
           StrToUppercase(input.words[i]) = KwTo

\* the first word of the parsed line is the keyword, ignoring case
ParsedKeyword(keyword) ==
    /\ Parsed
    /\ input.words # <<>>
    /\ StrToUppercase(input.words[1]) = keyword

\* C21: the n tokens after TRANSFER parse to
\* TransferEmployeeBetweenDepartments(employee, from, to), with to the last
\* token, from the third from last and employee the first n-4 tokens joined
\* by single spaces, exactly when n >= 5, the last but one token is TO and
\* the fourth from last is FROM, ignoring case; every other token sequence
\* yields the one fixed Transfer syntax error.
C21_TransferFromBothEnds ==
    ParsedKeyword(KwTransfer) =>
        LET tokens == Tail(input.words)
            n      == Len(tokens)
        IN  IF /\ n >= 5
               /\ StrToUppercase(tokens[n - 1]) = KwTo
               /\ StrToUppercase(tokens[n - 3]) = KwFrom
            THEN lastCommand
                   = Command("TransferEmployeeBetweenDepartments",
                             JoinWords(SubSeq(tokens, 1, n - 4)),
                             tokens[n - 2], tokens[n])
            ELSE lastCommand = SyntaxErr(TRANSFER_SYNTAX_ERR)

\* a transfer whose employee name has two words has been parsed
C21_Witness ==
    /\ ParsedKeyword(KwTransfer)
    /\ lastCommand.type = "TransferEmployeeBetweenDepartments"
    /\ Len(input.words) = 7

\* what a command of exactly one token yields for the tokens after the
\* keyword
OneToken(tokens, type, missing) ==
    IF Len(tokens) = 0 THEN SyntaxErr(<<missing>>)
    ELSE IF Len(tokens) >= 2
    THEN SyntaxErr(<<"Due to company policy, department names can only be one word long">>)
    ELSE Command(type, tokens[1], <<>>, <<>>)

HasWhitespace(text) == \E i \in 1..Len(text) : IsWhitespace(text[i])

\* C22: FORM and DISSOLVE accept exactly one token after the keyword: none
\* gives the syntax error asking for a department, two or more the syntax
\* error that department names can only be one word long, exactly one gives
\* FormDepartment(token), DissolveDepartment(token); so no department whose
\* name contains whitespace is created by the query.
C22_FormAndDissolveOneToken ==
    /\ ParsedKeyword(KwForm) =>
           lastCommand = OneToken(Tail(input.words), "FormDepartment",
                             "\"Form\" command must specify a department to form")
    /\ ParsedKeyword(KwDissolve) =>
           lastCommand = OneToken(Tail(input.words), "DissolveDepartment",
                             "\"Dissolve\" command must specify a department to dissolve")
    /\ Parsed =>
           \A i \in 1..Len(store) :
               /\ ~HasWhitespace(store[i].key)
               /\ ~HasWhitespace(store[i].value.name)

\* a FORM followed by two words has been parsed and has formed nothing
C22_Witness ==
    /\ ParsedKeyword(KwForm)
    /\ Len(input.words) = 3
    /\ lastCommand.type = "SyntaxErr"
    /\ store = <<>>

\* a FORM followed by one word has formed a department
C22_WitnessFormed ==
    /\ ParsedKeyword(KwForm)
    /\ Len(store) = 1

\* in the database at large, no stored department has whitespace in its key
\* or its display name
C22_NoWhitespaceInDepartments ==
    \A i \in 1..Len(store) :
        /\ ~HasWhitespace(store[i].key)
        /\ ~HasWhitespace(store[i].value.name)

\* C23: LIST yields a command only for three shapes of the tokens after it,
\* the first being EMPLOYEES or EMPLOYEE: nothing more gives ListEmployees,
\* `BY DEPARTMENT` and nothing more gives ListEmployeesByDepartment, `IN` and
\* one token and nothing more gives ListEmployeesInDepartment(token); every
\* other token sequence gives a SyntaxErr.
C23_ListShapes ==
    ParsedKeyword(KwList) =>
        LET tokens    == Tail(input.words)
            n         == Len(tokens)
            employees == n >= 1 /\ StrToUppercase(tokens[1]) \in KwEmployees
        IN  IF employees /\ n = 1
            THEN lastCommand = Command("ListEmployees", <<>>, <<>>, <<>>)
            ELSE IF /\ employees
                    /\ n = 3
                    /\ StrToUppercase(tokens[2]) = KwBy
                    /\ StrToUppercase(tokens[3]) = KwDepartment
            THEN lastCommand = Command("ListEmployeesByDepartment", <<>>, <<>>, <<>>)
            ELSE IF employees /\ n = 3 /\ StrToUppercase(tokens[2]) = KwIn
            THEN lastCommand
                   = Command("ListEmployeesInDepartment", tokens[3], <<>>, <<>>)
            ELSE lastCommand.type = "SyntaxErr"

\* `list employees in` followed by two words has been parsed
C23_Witness ==
    /\ ParsedKeyword(KwList)
    /\ Len(input.words) = 5
    /\ StrToUppercase(input.words[2]) \in KwEmployees
    /\ StrToUppercase(input.words[3]) = KwIn
    /\ lastCommand.type = "SyntaxErr"

\* `list employees by department` has been parsed
C23_WitnessListings ==
    /\ ParsedKeyword(KwList)
    /\ lastCommand.type = "ListEmployeesByDepartment"

IsSeed == lastCommand.type = "Seed"

\* the store holds a department under the key of a department of DATA
HoldsSeedKey(st) ==
    \E i \in 1..Len(DATA) : HasDepartment(st, DATA[i].department)

\* every department of DATA is in the store with all its employees
Seeded(st) ==
    \A i \in 1..Len(DATA) :
        /\ HasDepartment(st, DATA[i].department)
        /\ \A j \in 1..Len(DATA[i].employees) :
               Holds(st, DATA[i].department, DATA[i].employees[j])

\* C24: seed panics when the store already holds a department under the key
\* of one of the seed departments, so that a second seed right after a first
\* panics; seed on a store holding none of these keys, the empty store
\* included, completes and enters every seed department.
C24_SeedPanicsOnConflict ==
    IsSeed =>
        /\ HoldsSeedKey(before) => response = Panic
        /\ ~HoldsSeedKey(before) => (response = Unit /\ Seeded(store))
        /\ response = Unit => HoldsSeedKey(store)

\* a second seed of a database that still holds all that the first entered
C24_Witness ==
    /\ IsSeed
    /\ Seeded(before)
    /\ response = Panic

\* a seed of the empty store has completed
C24_WitnessEmptyStore ==
    /\ IsSeed
    /\ before = <<>>
    /\ response = Unit

NotFoundDepartment(department) ==
    Message(<<"ERROR: Query target not found: ", "Department \"">> \o department
            \o <<"\" not found">>)

NotFoundEmployee(employee) ==
    Message(<<"ERROR: Query target not found: ", "Employee \"">> \o employee
            \o <<"\" does not exist">>)

ConflictInDestination(employee, department) ==
    Message(<<"ERROR: Query conflict: ", "Employee \"">> \o employee
            \o <<"\" already exists in department \"">> \o department
            \o <<"\"">>)

\* C25: a transfer between differently typed departments reports the first
\* check that fails, in the order (1) the source department exists, (2) the
\* employee is in the source, (3) the destination department exists, (4) the
\* employee's key is not in the destination; so with both departments
\* missing the error names the source, and with the employee missing from an
\* existing source and the destination missing it names the employee.
C25_TransferCheckOrder ==
    (IsTransfer /\ lastCommand.b # lastCommand.c) =>
        IF ~HasDepartment(before, lastCommand.b)
        THEN response = NotFoundDepartment(lastCommand.b)
        ELSE IF ~Holds(before, lastCommand.b, lastCommand.a)
        THEN response = NotFoundEmployee(lastCommand.a)
        ELSE IF ~HasDepartment(before, lastCommand.c)
        THEN response = NotFoundDepartment(lastCommand.c)
        ELSE IF Holds(before, lastCommand.c, lastCommand.a)
        THEN response = ConflictInDestination(lastCommand.a, lastCommand.c)
        ELSE ~IsErrorResponse(response)

\* a transfer of an employee missing from its existing source department to
\* a department that does not exist
C25_Witness ==
    /\ IsTransfer
    /\ HasDepartment(before, lastCommand.b)
    /\ ~Holds(before, lastCommand.b, lastCommand.a)
    /\ ~HasDepartment(before, lastCommand.c)
    /\ response.type = "Message"

\* a transfer between two departments that do not exist, asked of a store
\* that holds another department
C25_WitnessBothMissing ==
    /\ IsTransfer
    /\ lastCommand.b # lastCommand.c
    /\ ~HasDepartment(before, lastCommand.b)
    /\ ~HasDepartment(before, lastCommand.c)
    /\ before # <<>>

\* C26: with a transfer taken as its two store mutations in program order,
\* the create in the destination and then the delete from the source, the
\* employee is in at least one of the two departments in every state from
\* the start of a successful transfer to its end; in no state between is it
\* absent from both.
C26_InsertThenDelete ==
    /\ InProgress =>
           \/ Holds(store, lastCommand.b, lastCommand.a)
           \/ Holds(store, lastCommand.c, lastCommand.a)
    /\ (IsTransfer /\ (InProgress \/ ~IsErrorResponse(response))) =>
           /\ Holds(before, lastCommand.b, lastCommand.a)
           /\ Holds(store, lastCommand.c, lastCommand.a)

\* between the two mutations of a transfer, the employee is in both
\* departments
C26_Witness ==
    /\ InProgress
    /\ Holds(store, lastCommand.b, lastCommand.a)
    /\ Holds(store, lastCommand.c, lastCommand.a)
    /\ ~Holds(before, lastCommand.c, lastCommand.a)

\* the two steps together do what move_employee does in one
C26_StepsAgreeWithMoveEmployee ==
    (IsTransfer /\ ~InProgress) =>
        LET out == move_employee(before, lastCommand.a, lastCommand.b,
                                 lastCommand.c)
        IN  store = out.store /\ response = out.response

\* C27: the delete that ends a transfer never fails: whenever a transfer has
\* passed the create in the destination, the source department is found
\* again and holds the employee's key, so neither unwrap at the end of
\* move_employee panics.
C27_FinalDeleteNeverFails ==
    /\ InProgress =>
           /\ Departments_department(store, lastCommand.b).ok
           /\ Holds(store, lastCommand.b, lastCommand.a)
    /\ IsTransfer => response # Panic

\* a transfer of an employee whose key is not the key of its display name
\* has ended with its answer
C27_Witness ==
    /\ IsTransfer
    /\ ~InProgress
    /\ ~IsErrorResponse(response)
    /\ employees_to_key(employees_to_name(lastCommand.a))
           # employees_to_key(lastCommand.a)
    /\ ~Holds(store, lastCommand.b, lastCommand.a)

\* a transfer between two different spellings of one department key, the
\* department existing and holding the employee
SameKeyTransfer ==
    /\ IsTransfer
    /\ lastCommand.b # lastCommand.c
    /\ departments_to_key(lastCommand.b) = departments_to_key(lastCommand.c)
    /\ Holds(before, lastCommand.b, lastCommand.a)

\* C28: a transfer whose from and to names are different strings but the same
\* department by key is not caught by the same-department check; when that
\* department exists and holds the employee, the answer is the Conflict error
\* `Employee "<e>" already exists in department "<to>"`, nothing panics and
\* the store is unchanged, the employee still in the department exactly once.
C28_SameKeyTransferConflicts ==
    SameKeyTransfer =>
        /\ response
             = Message(<<"ERROR: Query conflict: ", "Employee \"">> \o lastCommand.a
                       \o <<"\" already exists in department \"">> \o lastCommand.c
                       \o <<"\"">>)
        /\ store = before
        /\ Cardinality(Records(store, lastCommand.b, lastCommand.a)) = 1

\* such a transfer has been answered, in a department that holds another
\* employee as well
C28_Witness ==
    /\ SameKeyTransfer
    /\ Len(DepartmentOf(before, lastCommand.b).employees) >= 2
    /\ response.type = "Message"

\* the command was carried out: its answer is a message and no error
Succeeded == response.type = "Message" /\ ~IsErrorResponse(response)

\* the entries of the departments whose keys are not among `keys`
Others(st, keys) == SelectSeq(st, LAMBDA entry : entry.key \notin keys)

\* the departments of the store, without their employees
DepartmentsOf(st) ==
    [ i \in 1..Len(st) |-> [key |-> st[i].key, name |-> st[i].value.name] ]

SucceededIn(out) ==
    out.response.type = "Message" /\ ~IsErrorResponse(out.response)

\* the command that undoes the last command, asked of the store as it is
\* now: its outcome
Undone ==
    IF IsAssign THEN delete_employee(store, lastCommand.a, lastCommand.b)
    ELSE IF IsForm THEN delete_department(store, lastCommand.a)
    ELSE move_employee(store, lastCommand.a, lastCommand.c, lastCommand.b)

\* C30: a successful `assign e to d` followed by `pull e from d`, a
\* successful `form d` followed by `dissolve d`, and a successful `transfer e
\* from A to B` followed by `transfer e from B to A` each succeed in their
\* second step and leave the store equal to the store before the first.
C30_InverseCommandsRestore ==
    (Succeeded /\ (IsAssign \/ IsForm \/ IsTransfer)) =>
        /\ SucceededIn(Undone)
        /\ Undone.store = before

\* the same, with the employees of the restored store compared by their
\* keys for a transfer: the second step succeeds, assign and form are
\* undone exactly, and a transfer there and back restores every department
\* and every employee key
C30_InverseCommandsRestoreKeys ==
    (Succeeded /\ (IsAssign \/ IsForm \/ IsTransfer)) =>
        /\ SucceededIn(Undone)
        /\ ~IsTransfer => Undone.store = before
        /\ IsTransfer =>
               /\ DepartmentsOf(Undone.store) = DepartmentsOf(before)
               /\ \A i \in 1..Len(before) :
                      [ j \in 1..Len(before[i].value.employees) |->
                          before[i].value.employees[j].key ]
                    = [ j \in 1..Len(Undone.store[i].value.employees) |->
                          Undone.store[i].value.employees[j].key ]

\* the display name under which the store `st` holds the employee typed as
\* `employee` in the department typed as `department`
DisplayedAs(st, employee, department) ==
    BTreeGet(DepartmentOf(st, department).employees,
             employees_to_key(employee)).name

\* the same as C30, on every assign and form and on the transfers of an
\* employee typed so that the name shown for it is the one the store held
\* before the transfer
C30_InverseCommandsRestoreSameName ==
    (/\ Succeeded
     /\ (IsAssign \/ IsForm \/ IsTransfer)
     /\ IsTransfer =>
            DisplayedAs(before, lastCommand.a, lastCommand.b)
               = employees_to_name(lastCommand.a)) =>
        /\ SucceededIn(Undone)
        /\ Undone.store = before

\* a transfer of an employee held under another display name has succeeded
C30_WitnessRenamed ==
    /\ Succeeded
    /\ IsTransfer
    /\ DisplayedAs(before, lastCommand.a, lastCommand.b)
           # employees_to_name(lastCommand.a)

====
